---- MODULE Spec2Model ----
(***************************************************************************)
(* Model of the api-pleno ApiController: the quote/compare/history/gains   *)
(* operations and the two history-window extractors (HistorySearcher and   *)
(* the inline stream handlers).                                            *)
(*                                                                         *)
(* Texts are modelled at the level the code inspects them.  A line of the  *)
(* history stream is a record [k, d, v, c]:                                *)
(*   k = "lbrace"   the line  {                                            *)
(*   k = "key"      the line  "<date d>": {                                *)
(*   k = "f_open"   the line  "1. open": "<v>"   (c: trailing comma)       *)
(*   k = "f_close"  the line  "4. close": "<v>"  (c: trailing comma)       *)
(*   k = "rbrace"   the line  }   or  },         (c: trailing comma)       *)
(*   k = "error"    the line  "Error Message": "..."                       *)
(*   k = "meta"     the line  "3. Last Refreshed": "<date d>",             *)
(* The accumulated text is the sequence of its lines; its leading '{' and  *)
(* the appended '}' are the same characters as an lbrace / rbrace line.    *)
(***************************************************************************)
EXTENDS Integers, Sequences, FiniteSets, TLC

\* ------------------------------------------------------------------ bounds
NumDates == 3
MaxStocks == 2
\* the dates of the sources of two concurrent invocations
ConcurrentDates == 2

\* ------------------------------------------------------- program constants
\* milliseconds per day: new Date("YYYY-MM-DD") is that day's UTC midnight
MsPerDay == 86400000
\* regularMarketTime.toString() + '000': epoch seconds to epoch milliseconds
MsPerSecond == 1000

Dates == 1..NumDates
Symbols == {"ibm", "msft"}
NaN == -1

\* ------------------------------------------------------------------- lines
Line(k, d, v, c) == [k |-> k, d |-> d, v |-> v, c |-> c]
LBrace == Line("lbrace", 0, 0, FALSE)
RBrace(c) == Line("rbrace", 0, 0, c)
KeyLine(d) == Line("key", d, 0, FALSE)
OpenField(v) == Line("f_open", 0, v, TRUE)
CloseField(v) == Line("f_close", 0, v, FALSE)
ErrorLine == Line("error", 0, 0, FALSE)
MetaLine(d) == Line("meta", d, 0, TRUE)

\* line.includes(<date token>)
IncludesDate(line, d) == line.k \in {"key", "meta"} /\ line.d = d
\* line.includes('{')
IncludesLBrace(line) == line.k \in {"lbrace", "key"}
\* line.includes('}')
IncludesRBrace(line) == line.k = "rbrace"
\* line.includes('},')
IncludesRBraceComma(line) == line.k = "rbrace" /\ line.c

\* text.endsWith(',')
EndsWithComma(text) == Len(text) > 0 /\ text[Len(text)].c
\* text.slice(0, -1): drops the last character
SliceLastChar(text) ==
  IF Len(text) = 0 THEN text
  ELSE LET last == text[Len(text)] IN
       IF last.c THEN [text EXCEPT ![Len(text)].c = FALSE]
       ELSE IF last.k \in {"lbrace", "rbrace"} THEN SubSeq(text, 1, Len(text) - 1)
       ELSE Append(SubSeq(text, 1, Len(text) - 1), Line("cut", last.d, last.v, FALSE))

\* ------------------------------------------------------------------- dates
\* new Date(s) for a calendar date string: the instant of its UTC midnight
DateParse(day) == day * MsPerDay
\* toISOString().split('T')[0]: the calendar day of an instant
ISODay(instant) == instant \div MsPerDay
FormatDate(day) == ISODay(DateParse(day))

\* -------------------------------------------------------------- JSON.parse
\* The parse of an accumulated text: ok = FALSE for a SyntaxError, otherwise
\* the top-level members in key insertion order.  A member is [obj, key, day, open, close]: obj
\* says the value is an object, key is the kind of the line carrying the key,
\* day the date of a date key, open/close the '1. open' / '4. close' fields
\* (NaN when the object has no such field, as Number(undefined) is NaN).
Member(obj, key, day) == [obj |-> obj, key |-> key, day |-> day, open |-> NaN, close |-> NaN]

ParseStart == [depth |-> 0, expect |-> "value", top |-> <<>>, cur |-> Member(FALSE, "", 0), ok |-> TRUE]

\* after a member: a comma demands another member, no comma demands '}'
AfterMember(line) == IF line.c THEN "member" ELSE "close"

\* JSON objects keep one value per key: a repeated key keeps its first
\* position and takes the later value
PutMember(top, m) ==
  IF \E i \in 1..Len(top) : top[i].key = m.key /\ top[i].day = m.day
  THEN [i \in 1..Len(top) |-> IF top[i].key = m.key /\ top[i].day = m.day THEN m ELSE top[i]]
  ELSE Append(top, m)

ParseStep(ps, line) ==
  LET bad == [ps EXCEPT !.ok = FALSE]
      mayOpen == ps.expect \in {"first", "member"}
      mayShut == ps.expect \in {"first", "close"}
  IN
  IF ~ps.ok THEN ps
  ELSE IF ps.depth = 0 THEN
    IF ps.expect = "value" /\ line.k = "lbrace"
    THEN [ps EXCEPT !.depth = 1, !.expect = "first"]
    ELSE bad
  ELSE IF line.k = "key" THEN
    IF ~mayOpen THEN bad
    ELSE IF ps.depth = 1
    THEN [ps EXCEPT !.depth = 2, !.expect = "first", !.cur = Member(TRUE, "key", line.d)]
    ELSE [ps EXCEPT !.depth = ps.depth + 1, !.expect = "first"]
  ELSE IF line.k \in {"f_open", "f_close", "error", "meta"} THEN
    IF ~mayOpen THEN bad
    ELSE IF ps.depth = 1
    THEN [ps EXCEPT !.expect = AfterMember(line),
                    !.top = PutMember(ps.top, Member(FALSE, line.k, line.d))]
    ELSE IF ps.depth = 2 /\ line.k = "f_open"
    THEN [ps EXCEPT !.expect = AfterMember(line), !.cur.open = line.v]
    ELSE IF ps.depth = 2 /\ line.k = "f_close"
    THEN [ps EXCEPT !.expect = AfterMember(line), !.cur.close = line.v]
    ELSE [ps EXCEPT !.expect = AfterMember(line)]
  ELSE IF line.k = "rbrace" THEN
    IF ~mayShut THEN bad
    ELSE IF ps.depth = 1
    THEN IF line.c THEN bad ELSE [ps EXCEPT !.depth = 0, !.expect = "end"]
    ELSE IF ps.depth = 2
    THEN [ps EXCEPT !.depth = 1, !.expect = AfterMember(line),
                    !.top = PutMember(ps.top, ps.cur)]
    ELSE [ps EXCEPT !.depth = ps.depth - 1, !.expect = AfterMember(line)]
  ELSE bad

RECURSIVE ParseFrom(_, _, _)
ParseFrom(text, i, ps) ==
  IF i > Len(text) THEN ps ELSE ParseFrom(text, i + 1, ParseStep(ps, text[i]))

JSONParse(text) ==
  LET ps == ParseFrom(text, 1, ParseStart) IN
  IF ps.ok /\ ps.depth = 0 /\ ps.expect = "end"
  THEN [ok |-> TRUE, members |-> ps.top]
  ELSE [ok |-> FALSE, members |-> <<>>]

\* ------------------------------------------------- formatJSONHistoryObject
\* new Date(key) is an Invalid Date for a key that is no date, and its
\* toISOString() throws a RangeError
FormatThrows(members) == \E i \in 1..Len(members) : members[i].key # "key"

PricePoint(m) ==
  [opening |-> m.open, closing |-> m.close, pricedAt |-> DateParse(m.day)]

formatJSONHistoryObject(members) == [i \in 1..Len(members) |-> PricePoint(members[i])]

\* ------------------------------------------------------------ error model
NoSymbol == ""
NoDay == 0
NotFoundError(field, sym, day) == [type |-> "NotFound", field |-> field, sym |-> sym, day |-> day]
UnknownError == [type |-> "Unknown", field |-> "", sym |-> NoSymbol, day |-> NoDay]
ValidationError(field) == [type |-> "Validation", field |-> field, sym |-> NoSymbol, day |-> NoDay]

\* result envelope: ControllerSuccess<T> or BaseError[]
NoValue == [name |-> "", lastPrice |-> 0, pricedAt |-> 0, prices |-> <<>>, lastPrices |-> <<>>,
            priceAtDate |-> 0, purchasedAmount |-> 0, purchasedAt |-> 0, capitalGains |-> 0]
Pending == [kind |-> "Pending", errors |-> <<>>, value |-> NoValue]
\* the operation ended by throwing instead of returning
Thrown == [kind |-> "Thrown", errors |-> <<>>, value |-> NoValue]
Failure(errors) == [kind |-> "Failure", errors |-> errors, value |-> NoValue]
ControllerSuccess(value) == [kind |-> "Success", errors |-> <<>>, value |-> value]

\* createErrorObject: a list stays as it is, a single error becomes a list
createErrorObject(errors) == Failure(errors)

\* stock_name.toUpperCase()
ToUpperCase(sym) == IF sym = "ibm" THEN "IBM" ELSE IF sym = "msft" THEN "MSFT" ELSE sym

\* ------------------------------------------------------------------- state
Invocations == {1, 2}
Impls == {"HistorySearcher", "inline"}

VARIABLES
  op,                \* the operation under execution
  impl,              \* which ApiController: the one with HistorySearcher, or
                     \* the one with the inline stream handlers
  stock_name, stocks, from, to, purchasedAmount,   \* the request
  invalid,           \* the symbols ParameterValidator rejects
  paramErrors,       \* what ParameterValidator reports on the other parameters
  ret,               \* what the operation returned
  H,                 \* the getStockHistoryBySymbol invocations
  Q,                 \* the getStockBySymbol invocation in progress
  cmp,               \* the loop of compareStockBySymbols
  quoteLog,          \* every getStockBySymbol call so far: symbol and result
  yahooCalls         \* the symbols the quote provider was asked for, in order

request == <<op, impl, stock_name, stocks, from, to, purchasedAmount, invalid, paramErrors>>
quoteSide == <<Q, cmp, quoteLog, yahooCalls>>
vars == <<op, impl, stock_name, stocks, from, to, purchasedAmount, invalid, paramErrors,
          ret, H, Q, cmp, quoteLog, yahooCalls>>

\* ParameterValidator.getValidationErrors: nothing (the empty list here), or
\* the errors of the failing checks in the order of the checks
ValidateString(sym) == IF sym \in invalid THEN <<ValidationError("stock_name")>> ELSE <<>>
ValidateRequest(sym) == ValidateString(sym) \o paramErrors

\* a promise: pending, resolved with a text (HistorySearcher) or a result
\* (inline), or rejected with a reason
PendingPromise == [state |-> "pending", text |-> <<>>, value |-> Pending, reason |-> ""]
Resolved(text, value) == [state |-> "resolved", text |-> text, value |-> value, reason |-> ""]
Rejected(reason) == [state |-> "rejected", text |-> <<>>, value |-> Pending, reason |-> reason]

\* variant: a later resolve / reject replaces the outcome
Settle_LastWins(promise, outcome) == outcome

\* resolve / reject settle a pending promise and do nothing to a settled one
Settle(promise, outcome) == IF promise.state = "pending" THEN outcome ELSE promise

HistoryIdle ==
  [pc |-> "idle", stock |-> NoSymbol, from |-> NoDay, to |-> NoDay,
   stream |-> "none", src |-> <<>>,
   searchingState |-> [reading |-> FALSE, ending |-> FALSE],
   first |-> NoDay, last |-> NoDay,
   result |-> <<>>, promise |-> PendingPromise, uncaught |-> FALSE,
   asked |-> FALSE, afterQuote |-> FALSE, res |-> Pending]

\* --------------------------------------------------------- HistorySearcher
\* variant: the date is not looked for, any object start opens the window
foundStart_AnyObject(line, firstDateToAppearInStream) == IncludesLBrace(line)

foundStartOfWantedInterval(line, firstDateToAppearInStream) ==
  IncludesDate(line, firstDateToAppearInStream) /\ IncludesLBrace(line)

\* variant: the close boundary is looked for on an object end, not a start
foundEnd_OnObjectEnd(line, lastDateToAppearInStream) ==
  IncludesDate(line, lastDateToAppearInStream) /\ IncludesRBrace(line)

foundEndOfWantedInterval(line, lastDateToAppearInStream) ==
  IncludesDate(line, lastDateToAppearInStream) /\ IncludesLBrace(line)

didntFoundStockInDatabase(line) == line.k = "error"

finishedReadingLastObject(searchingState, line) ==
  searchingState.ending /\ IncludesRBrace(line)

\* variant: the last character is removed whether or not it is a comma
removeLastComma_Always(text) == SliceLastChar(text)

removeLastCommaIfNecessary(text) ==
  IF EndsWithComma(text) THEN SliceLastChar(text) ELSE text

\* variant: the close boundary is looked for before the line is ignored
scanStreamData_EndingWhileIdle(s, line) ==
  LET afterError == IF didntFoundStockInDatabase(line)
                    THEN Settle(s.promise, Rejected("stock"))
                    ELSE s.promise
      reading == s.searchingState.reading \/ foundStartOfWantedInterval(line, s.first)
      ending == s.searchingState.ending \/ foundEndOfWantedInterval(line, s.last)
  IN
  IF ~reading
  THEN [s EXCEPT !.promise = afterError, !.searchingState.ending = ending]
  ELSE
    LET state == [reading |-> TRUE, ending |-> ending]
        added == Append(s.result, line)
        finished == finishedReadingLastObject(state, line)
        closed == Append(removeLastCommaIfNecessary(added), RBrace(FALSE))
    IN [s EXCEPT !.searchingState = state,
                 !.result = IF finished THEN closed ELSE added,
                 !.promise = IF finished THEN Settle(afterError, Resolved(closed, Pending))
                             ELSE afterError]

\* the 'data' handler of scanStreamForTimeInterval, on invocation state s
scanStreamData(s, line) ==
  LET afterError == IF didntFoundStockInDatabase(line)
                    THEN Settle(s.promise, Rejected("stock"))
                    ELSE s.promise
      reading == s.searchingState.reading \/ foundStartOfWantedInterval(line, s.first)
  IN
  IF ~reading THEN [s EXCEPT !.promise = afterError]
  ELSE
    LET state == [reading |-> TRUE,
                  ending |-> s.searchingState.ending \/ foundEndOfWantedInterval(line, s.last)]
        added == Append(s.result, line)
        finished == finishedReadingLastObject(state, line)
        closed == Append(removeLastCommaIfNecessary(added), RBrace(FALSE))
    IN [s EXCEPT !.searchingState = state,
                 !.result = IF finished THEN closed ELSE added,
                 !.promise = IF finished THEN Settle(afterError, Resolved(closed, Pending))
                             ELSE afterError]

\* the 'end' handler of scanStreamForTimeInterval
scanStreamEnd(s) == [s EXCEPT !.promise = Settle(s.promise, Rejected("fromto"))]

HistorySuccess(stock, members) ==
  ControllerSuccess([NoValue EXCEPT !.name = ToUpperCase(stock),
                                    !.prices = formatJSONHistoryObject(members)])

\* variant: the two errors in the other order
DateNotFound_ToFirst(s) ==
  createErrorObject(<<NotFoundError("to", NoSymbol, s.to), NotFoundError("from", NoSymbol, s.from)>>)

DateNotFound(s) ==
  createErrorObject(<<NotFoundError("from", NoSymbol, s.from), NotFoundError("to", NoSymbol, s.to)>>)
\* variant: a missing stock reported as Unknown
StockNotFound_AsUnknown(s) == createErrorObject(<<UnknownError>>)

StockNotFound(s) == createErrorObject(<<NotFoundError("stock_name", s.stock, NoDay)>>)

\* searchTimeIntervalInHistory after the scan's promise settled, and the
\* try/catch of getStockHistoryBySymbol around it
searchTimeIntervalResult(s) ==
  IF s.promise.state = "resolved" THEN
    LET parsed == JSONParse(s.promise.text) IN
    IF ~parsed.ok \/ FormatThrows(parsed.members)
    THEN createErrorObject(<<UnknownError>>)
    ELSE HistorySuccess(s.stock, parsed.members)
  ELSE IF s.promise.reason = "fromto" THEN DateNotFound(s)
  ELSE IF s.promise.reason = "stock" THEN StockNotFound(s)
  ELSE createErrorObject(<<UnknownError>>)

\* ------------------------------------------------ inline stream handlers
\* the 'pause' handler
inlinePause(s) ==
  LET text == Append(s.result, RBrace(FALSE))
      parsed == JSONParse(text)
      paused == [s EXCEPT !.result = text, !.stream = "paused"]
  IN
  IF text = <<LBrace, RBrace(FALSE)>>
  THEN [paused EXCEPT !.promise = Settle(s.promise, Resolved(<<>>, StockNotFound(s)))]
  ELSE IF ~parsed.ok \/ FormatThrows(parsed.members)
  THEN [paused EXCEPT !.uncaught = TRUE]
  ELSE [paused EXCEPT !.promise =
          Settle(s.promise, Resolved(<<>>, HistorySuccess(s.stock, parsed.members)))]

\* historyStream.pause(): emits 'pause' unless the stream is paused already
streamPause(s) == IF s.stream = "flowing" THEN inlinePause(s) ELSE s

\* the 'data' handler
inlineData(s, line) ==
  LET s1 == IF line.k = "error" THEN streamPause(s) ELSE s IN
  IF s1.uncaught THEN s1
  ELSE
    LET reading == s1.searchingState.reading \/
                   (IncludesDate(line, s1.first) /\ IncludesLBrace(line))
    IN
    IF ~reading THEN s1
    ELSE
      LET state == [reading |-> TRUE,
                    ending |-> s1.searchingState.ending \/
                               (IncludesDate(line, s1.last) /\ IncludesLBrace(line))]
          s2 == [s1 EXCEPT !.searchingState = state, !.result = Append(s1.result, line)]
          isEndOfTheLastObject == state.ending /\ IncludesRBraceComma(line)
      IN IF isEndOfTheLastObject
         THEN streamPause([s2 EXCEPT !.result = SliceLastChar(s2.result)])
         ELSE s2

\* the 'end' handler
inlineEnd(s) == [s EXCEPT !.promise = Settle(s.promise, Resolved(<<>>, DateNotFound(s)))]

\* ------------------------------------------------------ the history stream
\* The provider's document: '{', an optional "Last Refreshed" line naming
\* the newest entry's date, the entries newest first with strictly
\* descending dates (key, fields, '}' or '},'), and the closing '}'.  An
\* error-marker line may occur once, anywhere.  NextLines(src) is what may
\* follow src.
RECURSIVE Document(_)
Document(src) ==
  IF src = <<>> THEN <<>>
  ELSE LET rest == Document(SubSeq(src, 1, Len(src) - 1)) IN
       IF src[Len(src)].k = "error" THEN rest ELSE Append(rest, src[Len(src)])

EntryCount(src) == Cardinality({i \in 1..Len(src) : src[i].k = "key"})
OpenValue(n) == 2 * n
CloseValue(n) == 2 * n + 1

KeyDays(src) == {src[i].d : i \in {j \in 1..Len(src) : src[j].k = "key"}}
\* the dates a source may hold, and its "Last Refreshed" lines (the sources
\* of two concurrent invocations are kept short: fewer dates, no such line)
StreamDates == IF op = "concurrent" THEN 1..ConcurrentDates ELSE Dates
MetaLines == IF op = "concurrent" THEN {} ELSE {MetaLine(d) : d \in Dates}
KeyLines(src) == {KeyLine(d) : d \in {e \in StreamDates : \A k \in KeyDays(src) : e < k}}

DocumentNext(src) ==
  LET doc == Document(src)
      n == Len(doc)
      last == doc[n]
  IN
  IF n = 0 THEN {LBrace}
  ELSE IF last.k = "lbrace" THEN MetaLines \cup KeyLines(src) \cup {RBrace(FALSE)}
  ELSE IF last.k = "meta" THEN {KeyLine(last.d)}
  ELSE IF last.k = "key" THEN {OpenField(OpenValue(EntryCount(src)))}
  ELSE IF last.k = "f_open" THEN {CloseField(CloseValue(EntryCount(src)))}
  ELSE IF last.k = "f_close" THEN {RBrace(TRUE), RBrace(FALSE)}
  ELSE IF last.c THEN KeyLines(src)
  ELSE IF doc[n - 1].k = "f_close" THEN {RBrace(FALSE)}
  ELSE {}

NextLines(src) ==
  DocumentNext(src) \cup
  (IF \E i \in 1..Len(src) : src[i].k = "error" THEN {} ELSE {ErrorLine})

\* ------------------------------------------------- getStockHistoryBySymbol
\* variant: the provider is asked for the stream before the validation errors
\* are looked at
HistoryCall_AskFirst(stock, f, t, errors) ==
  IF errors # <<>>
  THEN [HistoryIdle EXCEPT !.pc = "returned", !.stock = stock, !.from = f, !.to = t,
                           !.asked = TRUE, !.res = createErrorObject(errors)]
  ELSE [HistoryIdle EXCEPT !.pc = "awaitStream", !.stock = stock, !.from = f, !.to = t,
                           !.asked = TRUE]

\* the call up to its first await: validation, then the provider is asked
\* for the stream (asked: getStockHistoryAsStream has been called)
HistoryCall(stock, f, t, errors) ==
  IF errors # <<>>
  THEN [HistoryIdle EXCEPT !.pc = "returned", !.stock = stock, !.from = f, !.to = t,
                           !.res = createErrorObject(errors)]
  ELSE [HistoryIdle EXCEPT !.pc = "awaitStream", !.stock = stock, !.from = f, !.to = t,
                           !.asked = TRUE]

\* what the top-level operation has returned once H is as given
Returned(newH) == IF op = "history" THEN newH[1].res ELSE ret

GetStockHistoryBySymbol ==
  /\ op = "history" /\ H[1].pc = "idle"
  /\ H' = [H EXCEPT ![1] = HistoryCall(stock_name, from, to, ValidateRequest(stock_name))]
  /\ ret' = Returned(H')
  /\ UNCHANGED <<request, quoteSide>>

\* getStockHistoryAsStream returns the stream: the handlers are registered
StreamReady(h) ==
  /\ H[h].pc = "awaitStream"
  /\ H' = [H EXCEPT ![h].pc = "awaitScan", ![h].stream = "flowing",
                    ![h].result = <<LBrace>>,
                    ![h].first = FormatDate(H[h].to),
                    ![h].last = FormatDate(H[h].from)]
  /\ UNCHANGED <<request, quoteSide, ret>>

\* getStockHistoryAsStream faults: the catch turns it into UnknownError
\* (afterQuote records whether the quote call had returned by then)
StreamFault(h) ==
  /\ H[h].pc = "awaitStream"
  /\ H' = [H EXCEPT ![h].pc = "returned", ![h].res = createErrorObject(<<UnknownError>>),
                    ![h].afterQuote = (Q.pc = "returned")]
  /\ ret' = Returned(H')
  /\ UNCHANGED <<request, quoteSide>>

\* variant: one HistorySearcher serves every call
SearcherOf_Singleton(h) == 1

\* new HistorySearcher() in every call (let searchingState in the inline
\* handlers): the scanning flags invocation h works on are its own
SearcherOf(h) == h

\* the stream emits a line, one of lines
Deliver(h, lines) ==
  /\ H[h].stream = "flowing"
  /\ \E line \in lines :
       LET s == [H[h] EXCEPT !.src = Append(H[h].src, line),
                             !.searchingState = H[SearcherOf(h)].searchingState]
           t == IF impl = "HistorySearcher" THEN scanStreamData(s, line) ELSE inlineData(s, line)
       IN H' = [H EXCEPT ![h] = t, ![SearcherOf(h)].searchingState = t.searchingState]
  /\ UNCHANGED <<request, quoteSide, ret>>

\* the stream emits the next line of the provider's document
Data(h) == Deliver(h, NextLines(H[h].src))

\* A provider whose text is not the date-keyed document: after an entry's
\* closing line the separator may be missing although another entry
\* follows, and a member that is no date may stand between two entries.
ShapeLines(src) ==
  LET doc == Document(src)
      n == Len(doc)
      older == {e \in StreamDates : \A k \in KeyDays(src) : e < k}
  IN NextLines(src) \cup
     (IF n >= 2 /\ doc[n].k = "rbrace" /\ doc[n - 1].k = "f_close"
      THEN IF doc[n].c THEN {MetaLine(d) : d \in older} ELSE KeyLines(src)
      ELSE {})

\* the stream emits the next line of such a text
ShapeData(h) == Deliver(h, ShapeLines(H[h].src))

\* the stream ends
End(h) ==
  /\ H[h].stream = "flowing"
  /\ LET s == [H[h] EXCEPT !.stream = "ended"] IN
     H' = [H EXCEPT ![h] = IF impl = "HistorySearcher" THEN scanStreamEnd(s) ELSE inlineEnd(s)]
  /\ UNCHANGED <<request, quoteSide, ret>>

\* the awaited promise has settled: getStockHistoryBySymbol returns
HistoryResume(h) ==
  /\ H[h].pc = "awaitScan" /\ H[h].promise.state # "pending"
  /\ H' = [H EXCEPT ![h].pc = "returned",
                    ![h].afterQuote = (Q.pc = "returned"),
                    ![h].res = IF impl = "HistorySearcher" THEN searchTimeIntervalResult(H[h])
                               ELSE H[h].promise.value]
  /\ ret' = Returned(H')
  /\ UNCHANGED <<request, quoteSide>>

\* -------------------------------------------------------- getStockBySymbol
\* what the quote provider answers
\* (prices are in cents, here and in the history stream)
QuotePrices == {4, 9}
MarketTimes == {946684}
YahooQuotes(sym) ==
  {[symbol |-> ToUpperCase(sym), regularMarketPrice |-> p, regularMarketTime |-> t] :
     p \in QuotePrices, t \in MarketTimes}
YahooFaults == {"Not Found", "ECONNRESET"}

QuoteIdle == [pc |-> "idle", sym |-> NoSymbol, res |-> Pending]

QuoteSuccess(result) ==
  ControllerSuccess([NoValue EXCEPT !.name = result.symbol,
                                    !.lastPrice = result.regularMarketPrice,
                                    !.pricedAt = result.regularMarketTime * MsPerSecond])

\* variant: every provider fault is reported as not found
QuoteFailure_AlwaysNotFound(sym, code) ==
  createErrorObject(<<NotFoundError("stock_name", sym, NoDay)>>)

\* the catch of getStockBySymbol
QuoteFailure(sym, code) ==
  IF code = "Not Found"
  THEN createErrorObject(<<NotFoundError("stock_name", sym, NoDay)>>)
  ELSE createErrorObject(<<UnknownError>>)

\* the call up to its first await: validation, then the provider is asked
QuoteCall(sym) ==
  IF ValidateString(sym) # <<>>
  THEN [pc |-> "returned", sym |-> sym, res |-> createErrorObject(ValidateString(sym))]
  ELSE [pc |-> "awaitYahoo", sym |-> sym, res |-> Pending]

\* a log entry: the symbol asked for, whether the provider was asked, the
\* fault code it threw ("" for none), the quote it answered, the result
NoQuote == [symbol |-> NoSymbol, regularMarketPrice |-> 0, regularMarketTime |-> 0]
LogEntry(sym, asked, fault, quote, res) ==
  [sym |-> sym, asked |-> asked, fault |-> fault, quote |-> quote, res |-> res]

\* the log and the provider calls after getStockBySymbol(sym) was called
LogAfterCall(sym) ==
  IF QuoteCall(sym).pc = "returned"
  THEN Append(quoteLog, LogEntry(sym, FALSE, "", NoQuote, QuoteCall(sym).res))
  ELSE quoteLog
CallsAfterCall(sym) ==
  IF QuoteCall(sym).pc = "awaitYahoo" THEN Append(yahooCalls, sym) ELSE yahooCalls

GetStockBySymbol ==
  /\ op = "quote" /\ Q.pc = "idle"
  /\ Q' = QuoteCall(stock_name)
  /\ quoteLog' = LogAfterCall(stock_name)
  /\ yahooCalls' = CallsAfterCall(stock_name)
  /\ ret' = Q'.res
  /\ UNCHANGED <<request, H, cmp>>

\* the quote provider answers, or faults: getStockBySymbol returns
YahooSettle(fault, quote, res) ==
  /\ Q.pc = "awaitYahoo"
  /\ Q' = [Q EXCEPT !.pc = "returned", !.res = res]
  /\ quoteLog' = Append(quoteLog, LogEntry(Q.sym, TRUE, fault, quote, res))
  /\ ret' = IF op = "quote" THEN res ELSE ret
  /\ UNCHANGED <<request, H, cmp, yahooCalls>>

YahooReturns == \E result \in YahooQuotes(Q.sym) : YahooSettle("", result, QuoteSuccess(result))
YahooThrows == \E code \in YahooFaults : YahooSettle(code, NoQuote, QuoteFailure(Q.sym, code))

\* --------------------------------------------------- compareStockBySymbols
CompareIdle == [pc |-> "idle", i |-> 0, successArray |-> <<>>, errorArray |-> <<>>]
CompareList == <<stock_name>> \o stocks

\* the function up to its first await: the first symbol's call is made
CompareStockBySymbols ==
  /\ op = "compare" /\ cmp.pc = "idle"
  /\ cmp' = [cmp EXCEPT !.pc = "loop", !.i = 1]
  /\ Q' = QuoteCall(CompareList[1])
  /\ quoteLog' = LogAfterCall(CompareList[1])
  /\ yahooCalls' = CallsAfterCall(CompareList[1])
  /\ UNCHANGED <<request, H, ret>>

\* variant: only the first error is returned
CompareResult_FirstErrorOnly(successArray, errorArray) ==
  IF Len(errorArray) > 0
  THEN createErrorObject(<<errorArray[1]>>)
  ELSE ControllerSuccess([NoValue EXCEPT !.lastPrices = successArray])

\* variant: hasErrors is errorArray.length > 1
CompareResult_OffByOne(successArray, errorArray) ==
  IF Len(errorArray) > 1
  THEN createErrorObject(errorArray)
  ELSE ControllerSuccess([NoValue EXCEPT !.lastPrices = successArray])

CompareResult(successArray, errorArray) ==
  IF Len(errorArray) > 0
  THEN createErrorObject(errorArray)
  ELSE ControllerSuccess([NoValue EXCEPT !.lastPrices = successArray])

\* variant: the loop is left at the first failure
LoopContinues_UntilFailure(i, errorArray) == i < Len(CompareList) /\ errorArray = <<>>

\* for (const stock of [stock_name, ...stocks]): the loop has no break, it
\* goes on to the next element whatever has been filed in errorArray
LoopContinues(i, errorArray) == i < Len(CompareList)

\* the awaited call has returned: its result is filed, and the next symbol's
\* call is made or the function returns
CompareResume ==
  /\ op = "compare" /\ cmp.pc = "loop" /\ Q.pc = "returned"
  /\ LET successArray == IF Q.res.kind = "Success"
                         THEN Append(cmp.successArray, Q.res.value) ELSE cmp.successArray
         errorArray == IF Q.res.kind = "Success"
                       THEN cmp.errorArray ELSE cmp.errorArray \o Q.res.errors
     IN
     IF LoopContinues(cmp.i, errorArray)
     THEN /\ cmp' = [cmp EXCEPT !.i = cmp.i + 1, !.successArray = successArray,
                                !.errorArray = errorArray]
          /\ Q' = QuoteCall(CompareList[cmp.i + 1])
          /\ quoteLog' = LogAfterCall(CompareList[cmp.i + 1])
          /\ yahooCalls' = CallsAfterCall(CompareList[cmp.i + 1])
          /\ ret' = ret
     ELSE /\ cmp' = [cmp EXCEPT !.pc = "returned", !.successArray = successArray,
                                !.errorArray = errorArray]
          /\ ret' = CompareResult(successArray, errorArray)
          /\ UNCHANGED <<Q, quoteLog, yahooCalls>>
  /\ UNCHANGED <<request, H>>

\* ------------------------------------------------------------ projectGains
\* validation, then both calls are made before either is awaited
ProjectGains ==
  /\ op = "gains" /\ ret = Pending /\ Q.pc = "idle" /\ H[1].pc = "idle"
  /\ IF ValidateRequest(stock_name) # <<>>
     THEN /\ ret' = Failure(ValidateRequest(stock_name))
          /\ UNCHANGED <<H, quoteSide>>
     ELSE /\ Q' = QuoteCall(stock_name)
          /\ quoteLog' = LogAfterCall(stock_name)
          /\ yahooCalls' = CallsAfterCall(stock_name)
          /\ H' = [H EXCEPT ![1] = HistoryCall(stock_name, from, to, ValidateString(stock_name))]
          /\ UNCHANGED <<ret, cmp>>
  /\ UNCHANGED request

\* variant: the number of errors is not looked at
didNotFindDate_AnyNotFound(errors) == Len(errors) >= 1 /\ errors[1].type = "NotFound"

\* "The only case where there's two errors is when date is not found"
didNotFindDate(errors) == Len(errors) = 2 /\ errors[1].type = "NotFound"
PurchasedAtNotFound == Failure(<<NotFoundError("purchasedAt", NoSymbol, from)>>)

\* variant: the digits after the second decimal are cut off
ToFixed2_Truncate(x) == IF x >= 0 THEN x \div 10 ELSE -((-x) \div 10)

\* Number(x.toFixed(2)) of a value in thousandths (cents times tenths), in
\* cents: the nearest cent, the one of larger magnitude on a tie
ToFixed2(x) == IF x >= 0 THEN (x + 5) \div 10 ELSE -((-x + 5) \div 10)

GainsSuccess(todaysValue, onDateValue) ==
  IF onDateValue.value.prices = <<>> THEN Thrown
  ELSE LET totalToday == todaysValue.value.lastPrice * purchasedAmount
           totalOnDate == onDateValue.value.prices[1].closing * purchasedAmount
       IN ControllerSuccess([NoValue EXCEPT
            !.name = ToUpperCase(stock_name),
            !.lastPrice = todaysValue.value.lastPrice,
            !.priceAtDate = onDateValue.value.prices[1].closing,
            !.purchasedAmount = purchasedAmount,
            !.purchasedAt = DateParse(from),
            !.capitalGains = ToFixed2(totalToday - totalOnDate)])

\* projectGains after Promise.all, in the controller with HistorySearcher
projectGainsResult(todaysValue, onDateValue) ==
  IF todaysValue.kind # "Success" THEN todaysValue
  ELSE IF onDateValue.kind # "Success"
  THEN IF didNotFindDate(onDateValue.errors) THEN PurchasedAtNotFound ELSE onDateValue
  ELSE GainsSuccess(todaysValue, onDateValue)

\* variant: the history side is looked at before the quote side
inlineProjectGainsResult_HistoryFirst(todaysValue, onDateValue) ==
  IF onDateValue.kind # "Success"
  THEN IF didNotFindDate(onDateValue.errors) THEN PurchasedAtNotFound ELSE onDateValue
  ELSE IF todaysValue.kind # "Success"
  THEN IF didNotFindDate(todaysValue.errors) THEN PurchasedAtNotFound ELSE todaysValue
  ELSE GainsSuccess(todaysValue, onDateValue)

\* projectGains after Promise.all, in the controller with the inline handlers
inlineProjectGainsResult(todaysValue, onDateValue) ==
  IF todaysValue.kind # "Success"
  THEN IF didNotFindDate(todaysValue.errors) THEN PurchasedAtNotFound ELSE todaysValue
  ELSE IF onDateValue.kind # "Success"
  THEN IF didNotFindDate(onDateValue.errors) THEN PurchasedAtNotFound ELSE onDateValue
  ELSE GainsSuccess(todaysValue, onDateValue)

\* variant: the first of the two calls to return settles the await
PromiseAll_First(q, h) == q.pc = "returned" \/ h.pc = "returned"

\* Promise.all of the two calls is fulfilled when both have returned
PromiseAll(q, h) == q.pc = "returned" /\ h.pc = "returned"

\* both calls have returned
GainsJoin ==
  /\ op = "gains" /\ ret = Pending /\ PromiseAll(Q, H[1])
  /\ ret' = IF impl = "HistorySearcher" THEN projectGainsResult(Q.res, H[1].res)
            ELSE inlineProjectGainsResult(Q.res, H[1].res)
  /\ UNCHANGED <<request, H, quoteSide>>

\* ----------------------------------------------------------- specification
Ops == {"quote", "compare", "history", "gains"}
\* purchasedAmount in tenths: 0.5 and 1.5
Amounts == {5, 15}
RECURSIVE SeqsUpTo(_, _)
SeqsUpTo(S, n) ==
  IF n = 0 THEN {<<>>}
  ELSE SeqsUpTo(S, n - 1) \cup {Append(q, x) : q \in {r \in SeqsUpTo(S, n - 1) : Len(r) = n - 1}, x \in S}
ParamErrorLists(o) ==
  IF o = "history"
  THEN {<<>>, <<ValidationError("to")>>, <<ValidationError("from"), ValidationError("to")>>}
  ELSE IF o = "gains"
  THEN {<<>>, <<ValidationError("purchasedAt")>>,
        <<ValidationError("purchasedAmount"), ValidationError("purchasedAt")>>}
  ELSE {<<>>}

Init ==
  /\ op \in Ops
  /\ impl \in IF op \in {"history", "gains"} THEN Impls ELSE {"HistorySearcher"}
  /\ stock_name \in Symbols
  /\ stocks \in IF op = "compare" THEN SeqsUpTo(Symbols, MaxStocks) ELSE {<<>>}
  /\ from \in IF op \in {"history", "gains"} THEN Dates ELSE {NoDay}
  /\ to \in IF op = "history" THEN {d \in Dates : from <= d}
            ELSE IF op = "gains" THEN {from} ELSE {NoDay}
  /\ purchasedAmount \in IF op = "gains" THEN Amounts ELSE {0}
  /\ invalid \in SUBSET ({stock_name} \cup {stocks[i] : i \in 1..Len(stocks)})
  /\ paramErrors \in ParamErrorLists(op)
  /\ ret = Pending
  /\ H = [h \in Invocations |-> HistoryIdle]
  /\ Q = QuoteIdle
  /\ cmp = CompareIdle
  /\ quoteLog = <<>>
  /\ yahooCalls = <<>>

Next ==
  \/ GetStockBySymbol
  \/ YahooReturns
  \/ YahooThrows
  \/ CompareStockBySymbols
  \/ CompareResume
  \/ GetStockHistoryBySymbol
  \/ \E h \in Invocations : StreamReady(h)
  \/ \E h \in Invocations : StreamFault(h)
  \/ \E h \in Invocations : Data(h)
  \/ \E h \in Invocations : End(h)
  \/ \E h \in Invocations : HistoryResume(h)
  \/ ProjectGains
  \/ GainsJoin

Spec == Init /\ [][Next]_vars

\* Two getStockHistoryBySymbol calls on the one ApiController, each over its
\* own stream, their events interleaved: the first asks for stock_name over
\* [from, to], the second for the other symbol over all the dates.
OtherSymbol(sym) == CHOOSE o \in Symbols : o # sym
ConcurrentCall(h) ==
  /\ op = "concurrent" /\ H[h].pc = "idle"
  /\ H' = [H EXCEPT ![h] =
             IF h = 1 THEN HistoryCall(stock_name, from, to, ValidateRequest(stock_name))
             ELSE HistoryCall(OtherSymbol(stock_name), 1, ConcurrentDates,
                              ValidateRequest(OtherSymbol(stock_name)))]
  /\ UNCHANGED <<request, quoteSide, ret>>

InitConcurrent ==
  /\ op = "concurrent"
  /\ impl \in Impls
  /\ stock_name = "ibm"
  /\ stocks = <<>>
  /\ from \in StreamDates
  /\ to \in {d \in StreamDates : from <= d}
  /\ purchasedAmount = 0
  /\ invalid = {}
  /\ paramErrors = <<>>
  /\ ret = Pending
  /\ H = [h \in Invocations |-> HistoryIdle]
  /\ Q = QuoteIdle
  /\ cmp = CompareIdle
  /\ quoteLog = <<>>
  /\ yahooCalls = <<>>

NextConcurrent ==
  \/ \E h \in Invocations : ConcurrentCall(h)
  \/ \E h \in Invocations : StreamReady(h)
  \/ \E h \in Invocations : StreamFault(h)
  \/ \E h \in Invocations : Data(h)
  \/ \E h \in Invocations : End(h)
  \/ \E h \in Invocations : HistoryResume(h)

ConcurrentSpec == InitConcurrent /\ [][NextConcurrent]_vars

\* getStockHistoryBySymbol over a provider whose text may be of another shape
InitShape == Init /\ op = "history"

NextShape ==
  \/ GetStockHistoryBySymbol
  \/ \E h \in Invocations : StreamReady(h)
  \/ \E h \in Invocations : StreamFault(h)
  \/ \E h \in Invocations : ShapeData(h)
  \/ \E h \in Invocations : End(h)
  \/ \E h \in Invocations : HistoryResume(h)

ShapeSpec == InitShape /\ [][NextShape]_vars

\* The event loop runs every callback that is ready, each provider call
\* settles, and the stream delivers its lines and then ends unless a handler
\* has paused it: a step that can be taken is taken.
LiveSpec == Spec /\ WF_vars(Next)

\* ================================================================== claims
\* what the claims say about a source, read off the delivered lines alone
HS == "HistorySearcher"
KeyIndex(src, d) ==
  IF \E i \in 1..Len(src) : src[i] = KeyLine(d)
  THEN CHOOSE i \in 1..Len(src) : src[i] = KeyLine(d) ELSE 0
\* the line that closes the entry of day d: the first '}' after its key
CloseIndex(src, d) ==
  LET k == KeyIndex(src, d)
      after == {i \in 1..Len(src) : i > k /\ src[i].k = "rbrace"}
  IN IF k = 0 \/ after = {} THEN 0 ELSE CHOOSE i \in after : \A j \in after : i <= j
ErrorUpTo(src, n) == \E i \in 1..Len(src) : i <= n /\ src[i].k = "error"
HasError(src) == ErrorUpTo(src, Len(src))
\* both boundaries are in the source and no error marker precedes the end of
\* the window: the source holds the whole window [f, t]
HoldsWindow(src, f, t) ==
  /\ KeyIndex(src, t) # 0 /\ CloseIndex(src, f) # 0
  /\ ~ErrorUpTo(src, CloseIndex(src, f))
SourcePoint(src, i) ==
  [opening |-> src[i + 1].v, closing |-> src[i + 2].v, pricedAt |-> src[i].d * MsPerDay]
RECURSIVE SourceWindow(_, _, _, _)
SourceWindow(src, i, f, t) ==
  IF i > Len(src) THEN <<>>
  ELSE IF src[i].k = "key" /\ f <= src[i].d /\ src[i].d <= t
  THEN <<SourcePoint(src, i)>> \o SourceWindow(src, i + 1, f, t)
  ELSE SourceWindow(src, i + 1, f, t)
IsSuccess(r) == r.kind = "Success"
IsFailure(r, errors) == r.kind = "Failure" /\ r.errors = errors
HistoryReturned(h) == H[h].pc = "returned" /\ H[h].stream # "none"

\* C1: multi-day window.  Once getStockHistoryBySymbol (HistorySearcher) has
\* returned over a descending source that holds both boundaries, the result
\* is Success and its prices are exactly the source's entries with
\* from <= date <= to, once each, in source order.
C1_MultiDayWindow ==
  \A h \in Invocations :
    (impl = HS /\ HistoryReturned(h) /\ HoldsWindow(H[h].src, H[h].from, H[h].to)) =>
      /\ IsSuccess(H[h].res)
      /\ H[h].res.value.prices =
           SourceWindow(SubSeq(H[h].src, 1, CloseIndex(H[h].src, H[h].from)), 1, H[h].from, H[h].to)
      /\ H[h].res.value.name = ToUpperCase(H[h].stock)

\* a returned window of two entries around a calendar gap
C1_Witness ==
  /\ impl = HS /\ HistoryReturned(1) /\ HoldsWindow(H[1].src, H[1].from, H[1].to)
  /\ H[1].from = 1 /\ H[1].to = 3 /\ KeyIndex(H[1].src, 2) = 0
  /\ Len(H[1].res.value.prices) = 2

\* a returned window of two entries, a newer entry of the source left out
\* and the rest of the document delivered after it
C1_WitnessOutside ==
  /\ impl = HS /\ HistoryReturned(1) /\ HoldsWindow(H[1].src, H[1].from, H[1].to)
  /\ H[1].from = 1 /\ H[1].to = 2 /\ KeyIndex(H[1].src, 3) # 0
  /\ Len(H[1].src) > CloseIndex(H[1].src, 1)
  /\ Len(H[1].res.value.prices) = 2

\* C2: single-day window.  With from = to = d, the key line of d sets both
\* reading and ending (the flags are never apart), the scan is done as soon
\* as that entry closes, and the result is Success with exactly one price
\* point, the record of d.
C2_SingleDayWindow ==
  \A h \in Invocations :
    (impl = HS /\ H[h].stream # "none" /\ H[h].from = H[h].to) =>
      /\ H[h].searchingState.reading = H[h].searchingState.ending
      /\ H[h].searchingState.reading = (KeyIndex(H[h].src, H[h].to) # 0)
      /\ HoldsWindow(H[h].src, H[h].from, H[h].to) =>
           /\ H[h].promise.state = "resolved"
           /\ H[h].pc = "returned" =>
                /\ IsSuccess(H[h].res)
                /\ H[h].res.value.prices = <<SourcePoint(H[h].src, KeyIndex(H[h].src, H[h].to))>>

\* a single-day request answered from the middle of a source
C2_Witness ==
  /\ impl = HS /\ HistoryReturned(1) /\ H[1].from = 2 /\ H[1].to = 2
  /\ HoldsWindow(H[1].src, 2, 2) /\ KeyIndex(H[1].src, 3) # 0 /\ CloseIndex(H[1].src, 1) # 0
  /\ IsSuccess(H[1].res)

\* the lines of the source from the key of day t to the close of day f
WindowLines(src, f, t) == SubSeq(src, KeyIndex(src, t), CloseIndex(src, f))
IsLastEntry(src, d) == CloseIndex(src, d) # 0 /\ ~src[CloseIndex(src, d)].c

\* C3: last-entry case.  When the entry of `from` is the last of the source
\* (its closing line is '}' with no separator), HistorySearcher is done at
\* that line: the promise is resolved, never rejected, with the window's
\* lines verbatim between '{' and '}' (nothing is trimmed), which parse to the
\* window's entries.
C3_LastEntry ==
  \A h \in Invocations :
    (impl = HS /\ H[h].stream # "none" /\ HoldsWindow(H[h].src, H[h].from, H[h].to)
       /\ IsLastEntry(H[h].src, H[h].from)) =>
      /\ H[h].promise.state = "resolved"
      /\ H[h].promise.text =
           <<LBrace>> \o WindowLines(H[h].src, H[h].from, H[h].to) \o <<RBrace(FALSE)>>
      /\ JSONParse(H[h].promise.text).ok
      /\ formatJSONHistoryObject(JSONParse(H[h].promise.text).members) =
           SourceWindow(WindowLines(H[h].src, H[h].from, H[h].to), 1, H[h].from, H[h].to)
      /\ H[h].pc = "returned" => IsSuccess(H[h].res)

\* a window of two entries ending at the last entry, the closing '}' of the
\* document and the end of the stream delivered after it
C3_Witness ==
  /\ impl = HS /\ HistoryReturned(1) /\ HoldsWindow(H[1].src, H[1].from, H[1].to)
  /\ IsLastEntry(H[1].src, H[1].from) /\ H[1].from < H[1].to
  /\ H[1].stream = "ended" /\ Len(H[1].src) > CloseIndex(H[1].src, H[1].from)
  /\ IsSuccess(H[1].res)

ErrorIndex(src) ==
  IF HasError(src) THEN CHOOSE i \in 1..Len(src) : src[i].k = "error" ELSE 0
\* the scan is done on the source alone: the close of from's entry has been
\* delivered after the key of `to`
ScanDone(src, f, t) == KeyIndex(src, t) # 0 /\ CloseIndex(src, f) # 0
FromToErrors(f, t) == <<NotFoundError("from", NoSymbol, f), NotFoundError("to", NoSymbol, t)>>
StockErrors(sym) == <<NotFoundError("stock_name", sym, NoDay)>>

\* C4: when the source has ended before the scan was done and held no error
\* marker, getStockHistoryBySymbol returns [NotFound(from), NotFound(to)],
\* whichever boundary was missing.
C4_DateNotFound ==
  \A h \in Invocations :
    (HistoryReturned(h) /\ H[h].stream = "ended" /\ ~HasError(H[h].src)
       /\ ~ScanDone(H[h].src, H[h].from, H[h].to)) =>
      IsFailure(H[h].res, FromToErrors(H[h].from, H[h].to))

\* the open boundary appeared, the close boundary never did
C4_Witness ==
  /\ HistoryReturned(1) /\ H[1].stream = "ended" /\ ~HasError(H[1].src)
  /\ KeyIndex(H[1].src, H[1].to) # 0 /\ KeyIndex(H[1].src, H[1].from) = 0
  /\ H[1].from < H[1].to
  /\ H[1].res.kind = "Failure"

\* further cases of C4: the close boundary alone appeared; neither did
C4_WitnessOnlyFrom ==
  /\ HistoryReturned(1) /\ H[1].stream = "ended" /\ ~HasError(H[1].src)
  /\ KeyIndex(H[1].src, H[1].to) = 0 /\ CloseIndex(H[1].src, H[1].from) # 0
C4_WitnessNeither ==
  /\ HistoryReturned(1) /\ H[1].stream = "ended" /\ ~HasError(H[1].src)
  /\ KeyIndex(H[1].src, H[1].to) = 0 /\ KeyIndex(H[1].src, H[1].from) = 0
  /\ KeyDays(H[1].src) # {}

\* the error marker came before any line matched the open boundary
ErrorBeforeMatch(src, t) ==
  HasError(src) /\ ~(KeyIndex(src, t) # 0 /\ KeyIndex(src, t) < ErrorIndex(src))

\* C5: when the error-marker line comes before any line has matched the open
\* boundary, the scan fails with 'stock', nothing of the source has been
\* accumulated when it does, and getStockHistoryBySymbol returns exactly
\* [NotFound(stock_name)].
C5_ErrorBeforeMatch ==
  \A h \in Invocations :
    (H[h].stream # "none" /\ ErrorBeforeMatch(H[h].src, H[h].to)) =>
      /\ IF impl = HS THEN H[h].promise = Rejected("stock")
         ELSE H[h].promise = Resolved(<<>>, Failure(StockErrors(H[h].stock)))
      /\ KeyIndex(H[h].src, H[h].to) = 0 =>
           H[h].result = IF impl = HS THEN <<LBrace>> ELSE <<LBrace, RBrace(FALSE)>>
      /\ H[h].pc = "returned" => IsFailure(H[h].res, StockErrors(H[h].stock))

\* the marker after entries that are older than nothing asked for, the
\* result returned
C5_Witness ==
  /\ impl = HS /\ HistoryReturned(1) /\ ErrorBeforeMatch(H[1].src, H[1].to)
  /\ ErrorIndex(H[1].src) > 2
  /\ KeyIndex(H[1].src, H[1].to) > ErrorIndex(H[1].src)
  /\ H[1].res.kind = "Failure"

\* the error marker came while the window was being accumulated
ErrorInWindow(src, f, t) ==
  /\ HasError(src)
  /\ KeyIndex(src, t) # 0 /\ KeyIndex(src, t) < ErrorIndex(src)
  /\ ~(CloseIndex(src, f) # 0 /\ CloseIndex(src, f) < ErrorIndex(src))

\* C6: when the error-marker line comes after the open boundary has matched
\* and before the scan is done, the extractor fails with StockNotFound: no
\* fault escapes a handler, and what getStockHistoryBySymbol returns is
\* [NotFound(stock_name)], never a Success.
C6_AbortDuringAccumulation ==
  \A h \in Invocations :
    (H[h].stream # "none" /\ ErrorInWindow(H[h].src, H[h].from, H[h].to)) =>
      /\ ~H[h].uncaught
      /\ IF impl = HS THEN H[h].promise = Rejected("stock")
         ELSE H[h].promise = Resolved(<<>>, Failure(StockErrors(H[h].stock)))
      /\ H[h].pc = "returned" => IsFailure(H[h].res, StockErrors(H[h].stock))

\* C6 for HistorySearcher alone, which keeps it
C6_HistorySearcherAborts ==
  \A h \in Invocations :
    (impl = HS /\ H[h].stream # "none" /\ ErrorInWindow(H[h].src, H[h].from, H[h].to)) =>
      /\ H[h].promise = Rejected("stock")
      /\ H[h].pc = "returned" => IsFailure(H[h].res, StockErrors(H[h].stock))

\* C6, second part alone: no Success is returned after a marker in the window
C6_NoPartialSuccess ==
  \A h \in Invocations :
    (H[h].stream # "none" /\ ErrorInWindow(H[h].src, H[h].from, H[h].to)) =>
      ~IsSuccess(H[h].res)

\* the calls of getStockBySymbol that failed, their error lists concatenated
RECURSIVE ConcatFailures(_)
ConcatFailures(log) ==
  IF log = <<>> THEN <<>>
  ELSE (IF log[1].res.kind = "Failure" THEN log[1].res.errors ELSE <<>>)
         \o ConcatFailures(Tail(log))
CompareReturned == op = "compare" /\ cmp.pc = "returned"
LogFollowsInput ==
  /\ Len(quoteLog) = Len(CompareList)
  /\ \A i \in 1..Len(quoteLog) : quoteLog[i].sym = CompareList[i]

\* C7: when at least one symbol's getStockBySymbol failed, the result of
\* compareStockBySymbols is the Failure whose errors are the failure lists of
\* all failing symbols, concatenated in input order, and nothing else.
C7_CompareConcatenatesFailures ==
  (CompareReturned /\ \E i \in 1..Len(quoteLog) : quoteLog[i].res.kind = "Failure") =>
    /\ LogFollowsInput
    /\ ret = Failure(ConcatFailures(quoteLog))

\* three symbols: the first fails with Unknown, the second succeeds, the
\* third is not found
C7_Witness ==
  /\ CompareReturned /\ Len(quoteLog) = 3
  /\ quoteLog[1].fault = "ECONNRESET" /\ quoteLog[2].res.kind = "Success"
  /\ quoteLog[3].fault = "Not Found"
  /\ Len(ret.errors) = 2

\* C8: compareStockBySymbols returns Success exactly when every symbol's
\* getStockBySymbol succeeded, and then lastPrices holds the quote of each
\* input symbol, duplicates included, in input order.
C8_CompareSuccess ==
  CompareReturned =>
    /\ IsSuccess(ret) <=> \A i \in 1..Len(quoteLog) : quoteLog[i].res.kind = "Success"
    /\ IsSuccess(ret) =>
         /\ LogFollowsInput
         /\ ret.value.lastPrices = [i \in 1..Len(CompareList) |-> quoteLog[i].res.value]
         /\ \A i \in 1..Len(CompareList) :
              ret.value.lastPrices[i].name = ToUpperCase(CompareList[i])

\* a symbol asked for twice and quoted at two prices, another in between
C8_Witness ==
  /\ CompareReturned /\ IsSuccess(ret) /\ Len(CompareList) = 3
  /\ CompareList[1] = CompareList[3] /\ CompareList[1] # CompareList[2]
  /\ ret.value.lastPrices[1].lastPrice # ret.value.lastPrices[3].lastPrice

\* C9: for a symbol that passes validation, getStockBySymbol returns
\* [NotFound(stock_name = symbol)] when the provider's fault code is
\* 'Not Found', [Unknown] on any other fault, and otherwise the Success built
\* from the provider's fields; it never throws.
C9_GetStockBySymbol ==
  \A i \in 1..Len(quoteLog) :
    quoteLog[i].asked =>
      /\ quoteLog[i].fault = "Not Found" =>
           IsFailure(quoteLog[i].res, <<NotFoundError("stock_name", quoteLog[i].sym, NoDay)>>)
      /\ quoteLog[i].fault \notin {"", "Not Found"} =>
           IsFailure(quoteLog[i].res, <<UnknownError>>)
      /\ quoteLog[i].fault = "" =>
           /\ IsSuccess(quoteLog[i].res)
           /\ quoteLog[i].res.value.name = quoteLog[i].quote.symbol
           /\ quoteLog[i].res.value.lastPrice = quoteLog[i].quote.regularMarketPrice
           /\ quoteLog[i].res.value.pricedAt = quoteLog[i].quote.regularMarketTime * MsPerSecond
      /\ (op = "quote") => ret = quoteLog[i].res

\* getStockBySymbol returned after a provider fault that is not 'Not Found'
C9_Witness ==
  /\ op = "quote" /\ Len(quoteLog) = 1 /\ quoteLog[1].asked
  /\ quoteLog[1].fault = "ECONNRESET" /\ ret.kind = "Failure"

\* further cases of C9: not found; a quote
C9_WitnessNotFound ==
  /\ op = "quote" /\ Len(quoteLog) = 1 /\ quoteLog[1].fault = "Not Found" /\ ret.kind = "Failure"
C9_WitnessQuote ==
  /\ op = "quote" /\ Len(quoteLog) = 1 /\ quoteLog[1].asked /\ IsSuccess(ret)

\* the single-day history lookup of projectGains ended in DateNotFound
GainsDateNotFound ==
  /\ op = "gains" /\ ret.kind # "Pending"
  /\ H[1].pc = "returned" /\ IsFailure(H[1].res, FromToErrors(from, to))
NamesInternalField(r) ==
  \E i \in 1..Len(r.errors) : r.errors[i].type = "NotFound" /\ r.errors[i].field \in {"from", "to"}

\* C10: whenever the single-day history lookup of projectGains ends in
\* DateNotFound, projectGains returns exactly [NotFound(purchasedAt)]; it
\* never returns an error naming `from` or `to`.
C10_DateNotFoundCollapsed ==
  /\ GainsDateNotFound => IsFailure(ret, <<NotFoundError("purchasedAt", NoSymbol, from)>>)
  /\ op = "gains" => ~NamesInternalField(ret)

\* the parts of C10 the code keeps: the collapse when the quote call
\* succeeded, and no internal field name in any case
C10_CollapsedWhenQuoteSucceeds ==
  (GainsDateNotFound /\ Q.res.kind = "Success") =>
    IsFailure(ret, <<NotFoundError("purchasedAt", NoSymbol, from)>>)
C10_NoInternalField == op = "gains" => ~NamesInternalField(ret)
C10_WitnessCollapsed ==
  GainsDateNotFound /\ Q.res.kind = "Success" /\ ret.kind = "Failure"

\* projectGains has returned after both of its calls returned
GainsJoined ==
  /\ op = "gains" /\ ret.kind # "Pending"
  /\ Q.pc = "returned" /\ H[1].pc = "returned"
\* the history side's failure after the collapsing rule
Collapsed(r) ==
  IF r.errors = FromToErrors(from, to)
  THEN Failure(<<NotFoundError("purchasedAt", NoSymbol, from)>>) ELSE r

\* C11: failure precedence in projectGains.  When the history side failed,
\* projectGains returns the history side's failure (collapsed), also when the
\* quote side failed too; the quote side's failure is returned only when the
\* history side succeeded.
C11_HistoryFailureFirst ==
  GainsJoined =>
    /\ H[1].res.kind = "Failure" => ret = Collapsed(H[1].res)
    /\ (H[1].res.kind = "Success" /\ Q.res.kind = "Failure") => ret = Q.res

\* the part of C11 the code keeps: one side alone failed
C11_SingleFailure ==
  GainsJoined =>
    /\ (H[1].res.kind = "Failure" /\ Q.res.kind = "Success") => ret = Collapsed(H[1].res)
    /\ (H[1].res.kind = "Success" /\ Q.res.kind = "Failure") => ret = Q.res
\* what the code does when both sides failed: the quote side's failure
C11_QuoteFailureFirst ==
  (GainsJoined /\ H[1].res.kind = "Failure" /\ Q.res.kind = "Failure") => ret = Q.res
C11_WitnessBothFailed ==
  /\ GainsJoined /\ Q.res = Failure(<<UnknownError>>)
  /\ H[1].res = Failure(StockErrors(stock_name))

\* a result envelope: a Success, or a Failure with at least one error
IsEnvelope(r) ==
  \/ r.kind = "Success"
  \/ r.kind = "Failure" /\ Len(r.errors) >= 1
\* nothing has been returned yet
NotReturned(r) == r.kind = "Pending"

\* C12: result envelope.  Whatever the providers do, what getStockBySymbol,
\* compareStockBySymbols, getStockHistoryBySymbol and projectGains return is a
\* Success or a Failure with at least one error, and no fault escapes an
\* operation: nothing is thrown out of it or out of one of its handlers.
C12_ResultEnvelope ==
  /\ NotReturned(ret) \/ IsEnvelope(ret)
  /\ NotReturned(Q.res) \/ IsEnvelope(Q.res)
  /\ \A h \in Invocations :
       /\ NotReturned(H[h].res) \/ IsEnvelope(H[h].res)
       /\ ~H[h].uncaught

\* C12 for the controller with HistorySearcher, which keeps it
C12_HistorySearcherEnvelope == impl = HS => C12_ResultEnvelope
\* a fault has escaped the inline 'pause' handler
C12_WitnessEscaped == \E h \in Invocations : H[h].uncaught /\ NotReturned(ret)

\* C13: validation short-circuit.  When the validator reports errors,
\* getStockBySymbol, getStockHistoryBySymbol and projectGains return exactly
\* the validator's list, and neither the quote provider nor the history
\* provider has been called.
C13_ValidationShortCircuit ==
  /\ (op = "quote" /\ ValidateString(stock_name) # <<>>) =>
       /\ yahooCalls = <<>>
       /\ NotReturned(ret) \/ ret = Failure(ValidateString(stock_name))
       /\ Q.pc # "idle" => ret = Failure(ValidateString(stock_name))
  /\ (op \in {"history", "gains"} /\ ValidateRequest(stock_name) # <<>>) =>
       /\ yahooCalls = <<>>
       /\ \A h \in Invocations : ~H[h].asked /\ H[h].stream = "none"
       /\ NotReturned(ret) \/ ret = Failure(ValidateRequest(stock_name))
       /\ (op = "history" /\ H[1].pc # "idle") => ret = Failure(ValidateRequest(stock_name))

\* getStockHistoryBySymbol returned the validator's two errors
C13_Witness ==
  /\ op = "history" /\ Len(ValidateRequest(stock_name)) = 2
  /\ ret = Failure(ValidateRequest(stock_name)) /\ ~H[1].asked
\* further cases of C13: projectGains and getStockBySymbol
C13_WitnessGains ==
  /\ op = "gains" /\ Len(ValidateRequest(stock_name)) = 3
  /\ ret = Failure(ValidateRequest(stock_name)) /\ yahooCalls = <<>>
C13_WitnessQuote ==
  /\ op = "quote" /\ ret = Failure(<<ValidationError("stock_name")>>) /\ yahooCalls = <<>>

\* the extractor's state when the handlers have seen the lines of src, one
\* by one from the start, and the end of the stream if it has ended
RECURSIVE Replay(_, _, _)
Replay(s, src, i) ==
  IF i > Len(src) THEN s
  ELSE LET t == [s EXCEPT !.src = Append(s.src, src[i])] IN
       Replay(IF impl = HS THEN scanStreamData(t, src[i]) ELSE inlineData(t, src[i]), src, i + 1)
Replayed(h) ==
  LET start == [H[h] EXCEPT !.src = <<>>, !.stream = "flowing", !.result = <<LBrace>>,
                            !.searchingState = [reading |-> FALSE, ending |-> FALSE],
                            !.promise = PendingPromise, !.uncaught = FALSE]
      fed == Replay(start, H[h].src, 1)
  IN IF H[h].stream # "ended" THEN fed
     ELSE IF impl = HS THEN scanStreamEnd([fed EXCEPT !.stream = "ended"])
     ELSE inlineEnd([fed EXCEPT !.stream = "ended"])
\* the result of the history call as a function of what its provider did
HistoryOutcomeOf(h, replayed) ==
  IF H[h].stream = "none" THEN Failure(<<UnknownError>>)
  ELSE IF impl = HS THEN searchTimeIntervalResult(replayed)
  ELSE replayed.promise.value
HistoryOutcome(h) == HistoryOutcomeOf(h, Replayed(h))
\* the result of a quote call as a function of what its provider did
QuoteOutcome(entry) ==
  IF entry.fault = "" THEN QuoteSuccess(entry.quote) ELSE QuoteFailure(entry.sym, entry.fault)
GainsValid == op = "gains" /\ ValidateRequest(stock_name) = <<>>

\* C14: projectGains makes the quote call and the single-day history call
\* together (neither is started after the other has been waited for), has not
\* returned while one of them is outstanding (also when the other has already
\* failed), and what it returns is a function of what the two providers did
\* alone, whichever call returned first: the history call's state is the
\* replay of its own stream, untouched by the quote call.
C14_ConcurrentCalls ==
  GainsValid =>
    LET replayed == Replayed(1)
        outcome == HistoryOutcomeOf(1, replayed)
    IN
    /\ Q.pc = "idle" <=> H[1].pc = "idle"
    /\ ~NotReturned(ret) => (Q.pc = "returned" /\ H[1].pc = "returned")
    /\ H[1].stream # "none" =>
         /\ H[1].promise = replayed.promise
         /\ H[1].result = replayed.result
         /\ H[1].searchingState = replayed.searchingState
    /\ H[1].pc = "returned" => H[1].res = outcome
    /\ Q.pc = "returned" => (Len(quoteLog) = 1 /\ Q.res = QuoteOutcome(quoteLog[1]))
    /\ GainsJoined =>
         ret = IF impl = HS
               THEN projectGainsResult(QuoteOutcome(quoteLog[1]), outcome)
               ELSE inlineProjectGainsResult(QuoteOutcome(quoteLog[1]), outcome)

\* projectGains returned; the quote call had failed before the history call
\* (whose scan went on for some lines) returned
C14_Witness ==
  /\ GainsValid /\ GainsJoined /\ H[1].afterQuote
  /\ Q.res.kind = "Failure" /\ Len(H[1].src) > 2
\* further cases of C14: the history call returned first; both calls
\* outstanding at once; one failed and the other still outstanding
C14_WitnessHistoryFirst ==
  /\ GainsValid /\ GainsJoined /\ ~H[1].afterQuote /\ IsSuccess(ret)
C14_WitnessBothOutstanding ==
  /\ GainsValid /\ Q.pc = "awaitYahoo" /\ H[1].pc = "awaitScan" /\ Len(H[1].src) > 2
C14_WitnessWaitsAfterFailure ==
  /\ GainsValid /\ Q.pc = "returned" /\ Q.res.kind = "Failure"
  /\ H[1].pc = "awaitScan" /\ NotReturned(ret)

\* the getStockBySymbol calls made so far, in the order they were made: the
\* returned ones, then the one awaiting the provider
CallsMade == [i \in 1..Len(quoteLog) |-> quoteLog[i].sym]
               \o (IF Q.pc = "awaitYahoo" THEN <<Q.sym>> ELSE <<>>)
\* provider calls asked and not yet answered
Outstanding == Len(yahooCalls) - Cardinality({i \in 1..Len(quoteLog) : quoteLog[i].asked})

\* C15: compareStockBySymbols calls getStockBySymbol once per element of
\* [stock_name, ...stocks] in input order, one at a time: the calls made so
\* far are a prefix of the input, all but the last of them have returned, at
\* most one provider call is outstanding, and when the function has returned
\* every element has had its call, failures before it or not.
C15_SequentialCalls ==
  op = "compare" =>
    /\ Len(CallsMade) <= Len(CompareList)
    /\ CallsMade = SubSeq(CompareList, 1, Len(CallsMade))
    /\ Len(CallsMade) - Len(quoteLog) \in {0, 1}
    /\ Outstanding \in {0, 1}
    /\ Outstanding = 1 <=> Q.pc = "awaitYahoo"
    /\ cmp.pc = "loop" => Len(CallsMade) = cmp.i
    /\ CompareReturned => (CallsMade = CompareList /\ Outstanding = 0)

\* the first symbol failed at the provider and two more calls were made, the
\* last one for the first symbol again
C15_Witness ==
  /\ CompareReturned /\ Len(CompareList) = 3 /\ CompareList[3] = CompareList[1]
  /\ quoteLog[1].fault = "Not Found" /\ quoteLog[2].asked /\ quoteLog[3].asked
  /\ Len(yahooCalls) = 3
\* the second call outstanding after the first failed
C15_WitnessOutstanding ==
  /\ op = "compare" /\ Len(quoteLog) = 1 /\ quoteLog[1].res.kind = "Failure"
  /\ Q.pc = "awaitYahoo" /\ Outstanding = 1

Abs(x) == IF x >= 0 THEN x ELSE -x
\* g (in cents) is x (in thousandths) rounded to 2 decimal places
IsRounded2(g, x) ==
  /\ Abs(10 * g - x) <= 5
  /\ Abs(10 * g - x) = 5 => Abs(10 * g) > Abs(x)
\* the closing price of the purchase date's entry in the source
ClosePriceAt(src, d) == SourcePoint(src, KeyIndex(src, d)).closing

C16_WitnessTieUp ==
  /\ GainsJoined /\ IsSuccess(ret)
  /\ ret.value.purchasedAmount * (ret.value.lastPrice - ret.value.priceAtDate) = 15
  /\ ret.value.capitalGains = 2
C16_WitnessExact ==
  /\ GainsJoined /\ IsSuccess(ret)
  /\ ret.value.purchasedAmount * (ret.value.lastPrice - ret.value.priceAtDate) = 90
  /\ ret.value.capitalGains = 9

\* the extractor's phase, read off its flags and the scan's promise
Phase(s) ==
  IF s.promise.state = "rejected" THEN "Failed"
  ELSE IF s.promise.state = "resolved" THEN "Done"
  ELSE IF s.searchingState.ending THEN "Finishing"
  ELSE IF s.searchingState.reading THEN "Reading"
  ELSE "Idle"
\* the phases a step may lead to
PhasesAfter(s) ==
  IF Phase(s) = "Idle"
  THEN {"Idle", "Reading", "Failed"} \cup (IF s.from = s.to THEN {"Finishing"} ELSE {})
  ELSE IF Phase(s) = "Reading" THEN {"Reading", "Finishing", "Failed"}
  ELSE IF Phase(s) = "Finishing" THEN {"Finishing", "Done", "Failed"}
  ELSE {Phase(s)}
\* the step delivers a line that holds the close boundary's date and '{'
DeliversCloseBoundary(h) ==
  /\ Len(H'[h].src) = Len(H[h].src) + 1
  /\ foundEndOfWantedInterval(H'[h].src[Len(H'[h].src)], H[h].last)
PhaseStep(h) ==
  /\ H[h].searchingState.reading => H'[h].searchingState.reading
  /\ H[h].searchingState.ending => H'[h].searchingState.ending
  /\ Phase(H'[h]) \in PhasesAfter(H[h])
  /\ (DeliversCloseBoundary(h) /\ ~H'[h].searchingState.reading) =>
       ~H'[h].searchingState.ending

\* C17: extractor phase invariant (HistorySearcher).  In every state ending
\* implies reading; in every step neither flag goes back to false, the phase
\* stays or advances along Idle -> Reading -> Finishing -> Done (Idle ->
\* Finishing in one line only for a single-day query) or aborts to Failed,
\* and a close-boundary line delivered while the extractor is still Idle
\* leaves ending unset.
C17_PhaseInvariant ==
  /\ [](\A h \in Invocations :
          (impl = HS /\ H[h].searchingState.ending) => H[h].searchingState.reading)
  /\ [][\A h \in Invocations : (impl = HS /\ H[h].stream = "flowing") => PhaseStep(h)]_vars

\* the close boundary's line was delivered and the open boundary's never:
\* the extractor is still Idle with ending unset
C17_Witness ==
  /\ impl = HS /\ H[1].stream = "flowing" /\ H[1].from < H[1].to
  /\ KeyIndex(H[1].src, H[1].from) # 0 /\ KeyIndex(H[1].src, H[1].to) = 0
  /\ Phase(H[1]) = "Idle" /\ ~H[1].searchingState.ending
\* further cases of C17: each phase reached on the way to Done
C17_WitnessReading == impl = HS /\ Phase(H[1]) = "Reading" /\ Len(H[1].result) > 3
C17_WitnessFinishing == impl = HS /\ Phase(H[1]) = "Finishing" /\ H[1].from < H[1].to
C17_WitnessDone == impl = HS /\ Phase(H[1]) = "Done" /\ H[1].from < H[1].to

\* the lines of the source an extractor may hold: from the first line with
\* the open boundary's date and '{' to the line that closes the close
\* boundary's entry, and nothing from the error marker on
MatchedWindow(src, f, t) ==
  LET start == KeyIndex(src, t)
      close == CloseIndex(src, f)
      atClose == IF close # 0 THEN close ELSE Len(src)
      stop == IF HasError(src) /\ ErrorIndex(src) <= atClose THEN ErrorIndex(src) - 1 ELSE atClose
  IN IF start = 0 \/ stop < start THEN <<>> ELSE SubSeq(src, start, stop)
\* the buffer is '{', lines of the window (the last separator trimmed or
\* not), and the appended '}' or not
HoldsOnly(result, window) ==
  \E body \in {window, removeLastCommaIfNecessary(window)} :
    \E tail \in {<<>>, <<RBrace(FALSE)>>} :
      result = <<LBrace>> \o body \o tail

\* C18: window-bounded accumulation.  In every state of an extractor
\* invocation the buffer holds only lines of the matched window: nothing
\* before the first line with the open boundary's date and '{', nothing after
\* the line that closes the close boundary's entry, and nothing delivered
\* after Done or Failed.
C18_WindowBounded ==
  \A h \in Invocations :
    H[h].stream # "none" =>
      HoldsOnly(H[h].result, MatchedWindow(H[h].src, H[h].from, H[h].to))

\* the part of C18 the code keeps: nothing is accumulated before the open
\* boundary's line, and a line with its date and no '{' starts nothing
C18_NothingBeforeWindow ==
  \A h \in Invocations :
    H[h].stream # "none" =>
      /\ KeyIndex(H[h].src, H[h].to) = 0 => H[h].result \in {<<LBrace>>, <<LBrace, RBrace(FALSE)>>}
      /\ (KeyIndex(H[h].src, H[h].to) # 0 /\ Len(H[h].result) > 1) =>
           H[h].result[2] \in {KeyLine(H[h].to), RBrace(FALSE)}
\* HistorySearcher is Done and has buffered lines delivered after the window
C18_WitnessAfterDone ==
  /\ impl = HS /\ H[1].promise.state = "resolved"
  /\ Len(H[1].result) > Len(H[1].promise.text)
\* the "Last Refreshed" line holds the open boundary's date and was ignored
C18_WitnessMetaLine ==
  /\ H[1].stream # "none" /\ Len(H[1].src) = 2 /\ H[1].src[2] = MetaLine(H[1].to)
  /\ H[1].result = <<LBrace>>

\* the first of Done, the error marker and the end of the source decides:
\* Done is the line that closes the close boundary's entry
FirstEvent(src, ended, f, t) ==
  IF ScanDone(src, f, t) /\ (~HasError(src) \/ CloseIndex(src, f) < ErrorIndex(src)) THEN "Done"
  ELSE IF HasError(src) THEN "Marker"
  ELSE IF ended THEN "End"
  ELSE "None"
OutcomeOf(s) ==
  LET first == FirstEvent(s.src, s.stream = "ended", s.from, s.to) IN
  IF first = "Done"
  THEN Resolved(<<LBrace>> \o removeLastCommaIfNecessary(WindowLines(s.src, s.from, s.to))
                  \o <<RBrace(FALSE)>>, Pending)
  ELSE IF first = "Marker" THEN Rejected("stock")
  ELSE IF first = "End" THEN Rejected("fromto")
  ELSE PendingPromise
SettledStep(h) ==
  /\ H[h].promise.state # "pending" => H'[h].promise = H[h].promise
  /\ H[h].pc = "returned" => H'[h].res = H[h].res

\* C19: settle-once (HistorySearcher).  The outcome of an invocation is the
\* one of the first of Done, an error-marker line and the end of the source;
\* no later line or end of source changes the settled outcome, the text it
\* carries, or the result returned from it.
C19_SettleOnce ==
  /\ [](\A h \in Invocations :
          (impl = HS /\ H[h].stream # "none") =>
            /\ H[h].promise = OutcomeOf(H[h])
            /\ H[h].pc = "returned" =>
                 H[h].res = searchTimeIntervalResult([H[h] EXCEPT !.promise = OutcomeOf(H[h])]))
  /\ [][\A h \in Invocations : impl = HS => SettledStep(h)]_vars

\* a Success returned, and still there after an error marker, later closing
\* lines and the end of the source followed Done
C19_Witness ==
  /\ impl = HS /\ HistoryReturned(1) /\ IsSuccess(H[1].res)
  /\ HasError(H[1].src) /\ H[1].stream = "ended"
  /\ Len(H[1].result) > Len(H[1].promise.text)
\* further case of C19: StockNotFound stays after the end of the source
C19_WitnessMarkerThenEnd ==
  /\ impl = HS /\ HistoryReturned(1) /\ H[1].stream = "ended"
  /\ IsFailure(H[1].res, StockErrors(H[1].stock))

\* the provider has been asked for the stream and the call has not returned
HistoryOutstanding(h) == H[h].asked /\ H[h].pc # "returned"

\* C20: termination.  Over a finite line source, an invocation of
\* getStockHistoryBySymbol that has asked for the stream eventually returns a
\* result; it never stays pending forever.
C20_Termination ==
  \A h \in Invocations : HistoryOutstanding(h) ~> (H[h].pc = "returned" /\ IsEnvelope(H[h].res))

\* C20 for the controller with HistorySearcher, which keeps it: while the
\* call is outstanding one of its steps can be taken, the stream's answer,
\* the stream's end or the return (and every behaviour is finite, each step
\* consuming a line, the end, or a pending await)
C20_HistorySearcherNeverStuck ==
  \A h \in Invocations :
    (impl = HS /\ HistoryOutstanding(h)) =>
      \/ H[h].pc = "awaitStream"
      \/ H[h].stream = "flowing"
      \/ H[h].pc = "awaitScan" /\ H[h].promise.state # "pending"
\* the inline handlers: the stream is paused and the call will never return
C20_WitnessStuck ==
  /\ impl = "inline" /\ H[1].stream = "paused" /\ H[1].uncaught
  /\ H[1].promise.state = "pending" /\ H[1].pc = "awaitScan"

\* invocation h is where it would be had it run alone over its own source
RunsAlone(h) ==
  LET replayed == Replayed(h) IN
  /\ H[h].stream # "none" =>
       /\ H[h].promise = replayed.promise
       /\ H[h].result = replayed.result
       /\ H[h].searchingState = replayed.searchingState
       /\ H[h].uncaught = replayed.uncaught
  /\ (H[h].pc = "returned" /\ H[h].asked) => H[h].res = HistoryOutcomeOf(h, replayed)

\* C21: isolation of concurrent extractions.  With two
\* getStockHistoryBySymbol invocations on the one ApiController, each over
\* its own source and their line events interleaved in any order, the flags,
\* the buffer and the outcome of each are those of that invocation run alone
\* over its source, and so is the result it returns.
C21_Isolation == op = "concurrent" => \A h \in Invocations : RunsAlone(h)

\* the first invocation has returned a Success while the second, begun
\* before the first was done, is in the middle of its window; the second's
\* source holds an error marker, the first's flags are both set
C21_Witness ==
  /\ op = "concurrent" /\ H[1].pc = "returned" /\ IsSuccess(H[1].res)
  /\ H[1].stream = "flowing" /\ H[1].searchingState.ending
  /\ H[2].pc = "awaitScan" /\ H[2].stream = "flowing"
  /\ H[2].searchingState.reading /\ ~H[2].searchingState.ending
  /\ Len(H[2].src) > 3
\* both have returned, one a Success, the other DateNotFound
C21_WitnessBothReturned ==
  /\ op = "concurrent" /\ H[1].pc = "returned" /\ H[2].pc = "returned"
  /\ IsSuccess(H[2].res) /\ IsFailure(H[1].res, FromToErrors(H[1].from, H[1].to))

\* the provider call for the stream faulted
StreamFaulted(h) == H[h].asked /\ H[h].stream = "none" /\ H[h].pc = "returned"
\* the text the extractor took out of the stream: HistorySearcher's at Done,
\* the inline handlers' when they paused the stream
Extracted(h) ==
  IF impl = HS THEN H[h].promise.state = "resolved" ELSE H[h].stream = "paused"
ExtractedText(h) == IF impl = HS THEN H[h].promise.text ELSE H[h].result
\* the text does not parse into a mapping from dates to records
NotDateKeyed(text) == ~JSONParse(text).ok \/ FormatThrows(JSONParse(text).members)
\* the extraction came to its end over a source without error marker, and
\* what it took out is no date-keyed mapping
ShapeMismatch(h) ==
  /\ H[h].stream # "none" /\ ~HasError(H[h].src)
  /\ Extracted(h) /\ NotDateKeyed(ExtractedText(h))

\* C22: a history-side failure that is neither StockNotFound nor
\* DateNotFound: when the provider call for the stream faults, or the
\* extracted text does not parse into a date-keyed mapping,
\* getStockHistoryBySymbol returns exactly [Unknown]; no fault escapes and
\* nothing is reported as NotFound.
C22_UnknownOnOtherFailure ==
  \A h \in Invocations :
    /\ StreamFaulted(h) => H[h].res = Failure(<<UnknownError>>)
    /\ ShapeMismatch(h) =>
         /\ ~H[h].uncaught
         /\ H[h].promise.state # "pending"
         /\ H[h].pc = "returned" => H[h].res = Failure(<<UnknownError>>)

\* C22 for the controller with HistorySearcher, which keeps it
C22_HistorySearcherUnknown == impl = HS => C22_UnknownOnOtherFailure
\* the provider call faulted in either controller: [Unknown]
C22_StreamFaultUnknown ==
  \A h \in Invocations : StreamFaulted(h) => H[h].res = Failure(<<UnknownError>>)
\* HistorySearcher returned [Unknown] for a window with a missing separator
C22_WitnessMissingSeparator ==
  /\ impl = HS /\ ShapeMismatch(1) /\ ~JSONParse(H[1].promise.text).ok
  /\ H[1].pc = "returned" /\ H[1].res = Failure(<<UnknownError>>)
\* HistorySearcher returned [Unknown] for a window with a member that is no date
C22_WitnessNoDateKey ==
  /\ impl = HS /\ ShapeMismatch(1) /\ JSONParse(H[1].promise.text).ok
  /\ H[1].pc = "returned" /\ H[1].res = Failure(<<UnknownError>>)
\* the inline 'pause' handler threw on such a text
C22_WitnessEscaped == impl = "inline" /\ ShapeMismatch(1) /\ H[1].uncaught
C22_WitnessStreamFault == impl = "inline" /\ StreamFaulted(1)

\* the price point of day d's entry in the source
EntryOf(src, d) == SourcePoint(src, KeyIndex(src, d))
WindowEnds(h) ==
  /\ H[h].res.value.prices # <<>>
  /\ KeyIndex(H[h].src, H[h].to) # 0 /\ KeyIndex(H[h].src, H[h].from) # 0
  /\ H[h].res.value.prices[1] = EntryOf(H[h].src, H[h].to)
  /\ H[h].res.value.prices[Len(H[h].res.value.prices)] = EntryOf(H[h].src, H[h].from)

\* C23: whenever getStockHistoryBySymbol returns Success over a descending
\* source, prices is not empty, its first point is the entry dated `to` and
\* its last point the entry dated `from`; so prices[0], which projectGains
\* reads, exists and is the purchase date's entry, and projectGains never
\* throws on it.
C23_SuccessWindowEnds ==
  /\ \A h \in Invocations : (HistoryReturned(h) /\ IsSuccess(H[h].res)) => WindowEnds(h)
  /\ ret.kind # "Thrown"
  /\ (GainsJoined /\ IsSuccess(ret)) =>
       /\ H[1].res.value.prices[1].pricedAt = DateParse(from)
       /\ ret.value.priceAtDate = EntryOf(H[1].src, from).closing

\* C23 for the controller with HistorySearcher
C23_HistorySearcherWindowEnds == impl = HS => C23_SuccessWindowEnds
\* a Success of three points, from the newest entry to the oldest
C23_Witness ==
  /\ impl = HS /\ HistoryReturned(1) /\ IsSuccess(H[1].res)
  /\ H[1].from = 1 /\ H[1].to = 3 /\ Len(H[1].res.value.prices) = 3
  /\ H[1].res.value.prices[1].pricedAt # H[1].res.value.prices[3].pricedAt
\* projectGains read prices[0] of a single-day Success
C23_WitnessGains ==
  /\ GainsJoined /\ IsSuccess(ret) /\ Len(H[1].res.value.prices) = 1
  /\ KeyIndex(H[1].src, from) > 2
\* the inline handlers returned a Success that stops short of `from`
C23_WitnessShortWindow ==
  /\ impl = "inline" /\ HistoryReturned(1) /\ IsSuccess(H[1].res)
  /\ KeyIndex(H[1].src, H[1].from) = 0

\* the history call inside projectGains has returned a Failure
GainsHistoryFailed == op = "gains" /\ H[1].pc = "returned" /\ H[1].res.kind = "Failure"
IsDateNotFound(r) == r.kind = "Failure" /\ r.errors = FromToErrors(from, to)

\* C24: inside projectGains, the history call's Failure has two errors with
\* a NotFound first exactly when it is DateNotFound; so the rewrite to
\* [NotFound(purchasedAt)] happens for DateNotFound only: a StockNotFound or
\* Unknown failure of the history side, when it is what projectGains
\* returns, is returned as it is, and a returned [NotFound(purchasedAt)]
\* always comes from DateNotFound.
C24_OnlyDateNotFoundRewritten ==
  /\ GainsHistoryFailed =>
       /\ didNotFindDate(H[1].res.errors) <=> IsDateNotFound(H[1].res)
       /\ (Len(H[1].res.errors) = 2 /\ H[1].res.errors[1].type = "NotFound")
            <=> IsDateNotFound(H[1].res)
  /\ (GainsJoined /\ GainsHistoryFailed /\ Q.res.kind = "Success"
        /\ ~IsDateNotFound(H[1].res)) => ret = H[1].res
  /\ (GainsJoined /\ ret = PurchasedAtNotFound) => IsDateNotFound(H[1].res)

\* projectGains returned the history side's StockNotFound as it was
C24_Witness ==
  /\ GainsJoined /\ Q.res.kind = "Success"
  /\ H[1].res = Failure(StockErrors(stock_name)) /\ ret = H[1].res
\* further cases of C24: Unknown as it was; DateNotFound rewritten
C24_WitnessUnknown ==
  /\ GainsJoined /\ Q.res.kind = "Success"
  /\ H[1].res = Failure(<<UnknownError>>) /\ ret = H[1].res
C24_WitnessRewritten ==
  /\ GainsJoined /\ IsDateNotFound(H[1].res) /\ ret = PurchasedAtNotFound

\* prices[0] of the single-day lookup, in either controller (see C23)
C23_GainsReadsPurchaseDate ==
  /\ ret.kind # "Thrown"
  /\ (GainsJoined /\ IsSuccess(ret)) =>
       /\ H[1].res.value.prices[1].pricedAt = DateParse(from)
       /\ ret.value.priceAtDate = EntryOf(H[1].src, from).closing

\* the state of the named extractor after its 'data' handler has taken the
\* lines of src in order (a paused stream delivers nothing more)
RECURSIVE Feed(_, _, _, _)
Feed(extractor, s, src, i) ==
  IF i > Len(src) THEN s
  ELSE LET t == [s EXCEPT !.src = Append(s.src, src[i])] IN
       Feed(extractor,
            IF extractor = HS THEN scanStreamData(t, src[i])
            ELSE IF t.stream = "flowing" THEN inlineData(t, src[i]) ELSE s,
            src, i + 1)
\* what getStockHistoryBySymbol returns with the named extractor over the
\* source invocation h was given; Pending while (or when) it does not return
ExtractorResult(extractor, h) ==
  LET start == [H[h] EXCEPT !.src = <<>>, !.stream = "flowing", !.result = <<LBrace>>,
                            !.searchingState = [reading |-> FALSE, ending |-> FALSE],
                            !.promise = PendingPromise, !.uncaught = FALSE]
      fed == Feed(extractor, start, H[h].src, 1)
      done == IF H[h].stream = "ended" /\ fed.stream = "flowing"
              THEN IF extractor = HS THEN scanStreamEnd([fed EXCEPT !.stream = "ended"])
                   ELSE inlineEnd([fed EXCEPT !.stream = "ended"])
              ELSE fed
  IN IF done.uncaught \/ done.promise.state = "pending" THEN Pending
     ELSE IF extractor = HS THEN searchTimeIntervalResult(done)
     ELSE done.promise.value
\* the closing line of the window's final entry (the one dated f) is '},'
FinalEntrySeparated(src, f) ==
  CloseIndex(src, f) # 0 /\ IncludesRBraceComma(src[CloseIndex(src, f)])

\* C25: the two history-window extractors differ in comma-trim timing only.
\* Whenever getStockHistoryBySymbol has returned over a source in which the
\* closing line of the window's final entry is '},', the inline extractor and
\* HistorySearcher give the same result over that source: the same Success
\* prices or the same Failure list.
C25_SameResult ==
  (HistoryReturned(1) /\ FinalEntrySeparated(H[1].src, H[1].from)) =>
    ExtractorResult(HS, 1) = ExtractorResult("inline", 1)

\* the part of C25 the code keeps: the same result when no error marker
\* came while the window was being accumulated
C25_SameWithoutMarkerInWindow ==
  (/\ HistoryReturned(1) /\ FinalEntrySeparated(H[1].src, H[1].from)
   /\ ~ErrorInWindow(H[1].src, H[1].from, H[1].to)) =>
    /\ ExtractorResult(HS, 1) = ExtractorResult("inline", 1)
    /\ ExtractorResult(impl, 1) = H[1].res
\* ExtractorResult is what the running controller returned
C25_ExtractorResultIsReturned ==
  HistoryReturned(1) => ExtractorResult(impl, 1) = H[1].res

\* both extractors give the same Success over a separated final entry
C25_Witness ==
  /\ HistoryReturned(1) /\ FinalEntrySeparated(H[1].src, H[1].from)
  /\ H[1].from < H[1].to /\ IsSuccess(H[1].res)
  /\ ExtractorResult(HS, 1) = H[1].res /\ ExtractorResult("inline", 1) = H[1].res
C25_WitnessNeverReturns ==
  /\ HistoryReturned(1) /\ FinalEntrySeparated(H[1].src, H[1].from)
  /\ ExtractorResult(HS, 1) = Failure(StockErrors(H[1].stock))
  /\ ExtractorResult("inline", 1) = Pending
\* further cases of C25: a marker inside the window (the inline extractor
\* never returns), and a final entry that closes with "}" (the last entry of
\* the document): the claim does not cover it, and the two extractors differ
C25_WitnessLastEntry ==
  /\ HistoryReturned(1) /\ CloseIndex(H[1].src, H[1].from) # 0
  /\ ~FinalEntrySeparated(H[1].src, H[1].from)
  /\ IsSuccess(ExtractorResult(HS, 1))
  /\ ExtractorResult("inline", 1) = Failure(FromToErrors(H[1].from, H[1].to))

\* the Failures the two calls of projectGains can return for the request
FailingQuoteResults == {QuoteFailure(stock_name, code) : code \in YahooFaults}
FailingHistoryResults ==
  {Failure(StockErrors(stock_name)), Failure(FromToErrors(from, to)), Failure(<<UnknownError>>)}
BothFailed == GainsJoined /\ Q.res.kind = "Failure" /\ H[1].res.kind = "Failure"

\* C26 as stated: the two projectGains variants differ in which side's
\* failure wins when both calls fail; for some pair of a failing quote result
\* and a failing history result they return different Failure lists.
C26_VariantsDiffer ==
  BothFailed =>
    \E q \in FailingQuoteResults : \E h \in FailingHistoryResults :
      projectGainsResult(q, h) # inlineProjectGainsResult(q, h)

\* C26, amended: the two projectGains variants do not differ in which
\* side's failure wins.  For every pair of a failing quote result and a
\* failing history result both return the same Failure list, the quote
\* side's; and whenever both calls of projectGains have failed, their results
\* are such a pair and what is returned is what either variant gives.
C26_SamePrecedence ==
  /\ \A q \in FailingQuoteResults : \A h \in FailingHistoryResults :
       /\ projectGainsResult(q, h) = inlineProjectGainsResult(q, h)
       /\ inlineProjectGainsResult(q, h) = q
  /\ BothFailed =>
       /\ Q.res \in FailingQuoteResults /\ H[1].res \in FailingHistoryResults
       /\ ret = projectGainsResult(Q.res, H[1].res)
       /\ ret = inlineProjectGainsResult(Q.res, H[1].res)

\* the inline variant returned the quote side's failure over DateNotFound
C26_Witness ==
  /\ BothFailed /\ impl = "inline"
  /\ Q.res = Failure(StockErrors(stock_name))
  /\ H[1].res = Failure(FromToErrors(from, to)) /\ ret = Q.res
\* further case of C26: the same pair in the controller with HistorySearcher
C26_WitnessHistorySearcher ==
  /\ BothFailed /\ impl = HS
  /\ Q.res = Failure(StockErrors(stock_name))
  /\ H[1].res = Failure(FromToErrors(from, to)) /\ ret = Q.res
====
